---- MODULE Spec2Model ----
(***************************************************************************)
(* Model of the multi-year tax / 30%-ruling projection engine:             *)
(*   - apply_ruling and expat_ruling_calc (core/tax.py and the copy in     *)
(*     whats_left_llm/Salary_Calculator.py),                               *)
(*   - calc_tax, bereken_arbeidskorting, bereken_algemene_heffingskorting  *)
(*     (core/tax.py).                                                      *)
(*                                                                         *)
(* Amounts are Python floats in the source.  Here an amount is an integer  *)
(* number of half-cents (Scale units per euro): every value the ruling     *)
(* arithmetic produces from a whole-euro salary (x * 0.3 / 12 * m,         *)
(* x * 0.27) is an exact multiple of that unit, and every tax input used   *)
(* is a whole number of cents.  Products with a rate are carried as a      *)
(* pair (whole units, numerator over the rate's denominator) so that the   *)
(* final round(..., 2) is computed on the exact value; binary floating     *)
(* point noise below 1e-9 euro is not modelled.                            *)
(***************************************************************************)
EXTENDS Integers, Sequences, FiniteSets, TLC

VARIABLES
  variant,                \* which copy of expat_ruling_calc runs: "core" | "calculator"
  age, salary_in, date_string, duration, master_dpl,   \* the call's arguments
  base_salary,            \* local base_salary (re-assigned by the cap)
  eligible, Ruling_test,  \* locals
  current_year, months_remaining_init, months_remaining_final,
  my_dict,                \* year -> <<>> (the "" placeholder) or <<amount>>
  year1, year5,           \* locals of the relief branch
  idx,                    \* position of the loop over keys_list[1:5]
  pc,                     \* position in expat_ruling_calc
  raised,                 \* exception that ended the call, "none" otherwise
  taxArgs,                \* the two amounts the tax functions are called with
  taxCalls,               \* log of calls of the tax functions: [fn, arg, out]
  essential_costs,        \* out['essential_costs'], a monthly amount
  netnet,                 \* netincome(...) / 12, in twelfths of a unit
  pocket,                 \* netnet - essential_costs, in twelfths of a unit
  net_taxx,               \* net_tax(...): year -> Net Tax / 12, in twelfths
  netto_disposablee,      \* netto_disposable(...): year -> amount / 12, in twelfths
  return_net_incomee,     \* return_net_income(...), an annual amount
  job,                    \* the job selected in the form (res["inputs"])
  last_payload,           \* st.session_state["last_payload"], <<>> before the first store
  submissions             \* number of presses of the submit button so far

rulingVars == <<variant, age, salary_in, date_string, duration, master_dpl,
                base_salary, eligible, Ruling_test, current_year,
                months_remaining_init, months_remaining_final, my_dict,
                year1, year5, idx, pc, raised>>
taxVars == <<taxArgs, taxCalls>>
aggVars == <<essential_costs, netnet, pocket, net_taxx, netto_disposablee,
             return_net_incomee>>
sessionVars == <<job, last_payload, submissions>>
vars == <<variant, age, salary_in, date_string, duration, master_dpl,
          base_salary, eligible, Ruling_test, current_year,
          months_remaining_init, months_remaining_final, my_dict,
          year1, year5, idx, pc, raised, taxArgs, taxCalls,
          essential_costs, netnet, pocket, net_taxx, netto_disposablee,
          return_net_incomee, job, last_payload, submissions>>

----------------------------------------------------------------------------
(* Representation of amounts *)

Scale == 2 * 100
Euro(e) == e * Scale
Min(a, b) == IF a < b THEN a ELSE b
Max(a, b) == IF a > b THEN a ELSE b
\* x * p/100 for an amount x (exact whenever x is a whole-euro amount)
Pct(x, p) == (x * p) \div 100

----------------------------------------------------------------------------
(* Bounds of the explored inputs *)

MaxDuration == 6
FirstYear == 2024
LastYear == 2027

Variants == {"core", "calculator"}
Ages == {-1, 29, 30}
Salaries == {-1, 35468, 46660, 50667, 50668, 66656, 66657, 74520,
             233001, 246000, 250000}
Months == {1, 7, 12}
\* a date string is the sequence of its numeric fields; <<>> is a string
\* that is not of the form Y-M-D at all
DateStrings ==
  {<<y, m, 1>> : y \in FirstYear..LastYear, m \in Months}
    \cup {<<2026, 13, 1>>, <<2026, 2, 30>>, <<>>}
Durations == -1..MaxDuration

----------------------------------------------------------------------------
(* datetime.strptime(date_string, "%Y-%m-%d") *)

IsLeap(y) == (y % 4 = 0 /\ y % 100 # 0) \/ y % 400 = 0
DaysInMonth(y, m) ==
  IF m = 2 THEN (IF IsLeap(y) THEN 29 ELSE 28)
  ELSE IF m \in {4, 6, 9, 11} THEN 30 ELSE 31
strptime(s) ==
  IF Len(s) = 3 /\ s[1] \in 1..9999 /\ s[2] \in 1..12
       /\ s[3] \in 1..DaysInMonth(s[1], s[2])
  THEN [raised |-> FALSE, year |-> s[1], month |-> s[2]]
  ELSE [raised |-> TRUE, year |-> 0, month |-> 0]

----------------------------------------------------------------------------
(* apply_ruling *)

TopTierPct == 30
SecondTierPct == 27

ApplyRulingWith(base, months_dur, year, year_seq, second) ==
  IF year \in {2025, 2026} /\ year_seq = 0
  THEN [raised |-> FALSE,
        value |-> base - ((Pct(base, TopTierPct) * months_dur) \div 12)]
  ELSE IF year \in {2025, 2026} /\ year_seq = 1
  THEN [raised |-> FALSE, value |-> base - Pct(base, TopTierPct)]
  ELSE IF year \notin {2025, 2026} /\ year_seq = 1
  THEN [raised |-> FALSE, value |-> base - Pct(base, second)]
  ELSE IF year \notin {2025, 2026} /\ year_seq = 2
  THEN [raised |-> FALSE,
        value |-> (((base - Pct(base, TopTierPct)) * months_dur)
                     + (base * (12 - months_dur))) \div 12]
  \* else branch: print(gross_taxable) reads the local before it is
  \* assigned, so the call ends in UnboundLocalError
  ELSE [raised |-> TRUE, value |-> base]

\* the tier of an intermediate year decided as if only 2025 were a
\* top-tier calendar year
apply_ruling_only2025(base, months_dur, year, year_seq) ==
  IF year_seq = 1
  THEN [raised |-> FALSE,
        value |-> base - Pct(base, IF year = 2025 THEN TopTierPct
                                   ELSE SecondTierPct)]
  ELSE ApplyRulingWith(base, months_dur, year, year_seq, SecondTierPct)

\* the tiers of the intermediate years exchanged: 27% in 2025 and 2026,
\* 30% in the other calendar years
apply_ruling_tiers_swapped(base, months_dur, year, year_seq) ==
  IF year_seq = 1
  THEN [raised |-> FALSE,
        value |-> base - Pct(base, IF year \in {2025, 2026} THEN SecondTierPct
                                   ELSE TopTierPct)]
  ELSE ApplyRulingWith(base, months_dur, year, year_seq, SecondTierPct)

\* the first year's relief not divided over the 12 months
apply_ruling_not_prorated(base, months_dur, year, year_seq) ==
  IF year \in {2025, 2026} /\ year_seq = 0
  THEN [raised |-> FALSE,
        value |-> base - (Pct(base, TopTierPct) * months_dur)]
  ELSE ApplyRulingWith(base, months_dur, year, year_seq, SecondTierPct)

apply_ruling_flat30(base, months_dur, year, year_seq) ==
  ApplyRulingWith(base, months_dur, year, year_seq, TopTierPct)

apply_ruling(base, months_dur, year, year_seq) ==
  ApplyRulingWith(base, months_dur, year, year_seq, SecondTierPct)

----------------------------------------------------------------------------
(* expat_ruling_calc: parameters and pure parts *)

salary_req_young == 35468
salary_expert == 46660
SeniorThreshold == 66657
JuniorThreshold == 50668
CoreSalaryCap == 233000
CalculatorSalaryCap == 246000

salary_cap(v) == IF v = "core" THEN CoreSalaryCap ELSE CalculatorSalaryCap

\* the first if/elif: the eligible flag
EligibleSwapped(v, a, s, m) ==
  IF v = "core"
  THEN (a >= 30 /\ s >= salary_expert) \/ (a < 30 /\ m /\ s >= JuniorThreshold)
  ELSE (a >= 30 /\ s >= salary_req_young)
         \/ (a < 30 /\ m /\ s >= salary_expert /\ s < salary_cap(v))

Eligible(v, a, s, m) ==
  IF v = "core"
  THEN (a >= 30 /\ s >= SeniorThreshold) \/ (a < 30 /\ m /\ s >= JuniorThreshold)
  ELSE (a >= 30 /\ s >= salary_req_young)
         \/ (a < 30 /\ m /\ s >= salary_expert /\ s < salary_cap(v))

\* the second if/elif/else: Ruling_test
RulingTest(a, e, m, s) ==
  IF a < 30 /\ e /\ m /\ s >= salary_req_young THEN TRUE
  ELSE IF a >= 30 /\ e /\ s >= salary_expert THEN TRUE
  ELSE FALSE

\* CALCULATION BASE: the cap (amount in units)
CapBaseNoCap(v, s) == Euro(s)

CapBase(v, s) == IF s > salary_cap(v) THEN Euro(salary_cap(v)) ELSE Euro(s)

\* years_sequence = list(range(current_year, current_year + duration))
years_sequence(cy, d) == [i \in 1..Max(d, 0) |-> cy + i - 1]
keys_list == years_sequence(current_year, duration)

----------------------------------------------------------------------------
(* expat_ruling_calc, statement by statement *)

NoDict == [y \in {} |-> <<>>]
Raise(exc) ==
  /\ raised' = exc
  /\ pc' = "raised"

InitRuling ==
  /\ variant \in Variants
  /\ age \in Ages
  /\ salary_in \in Salaries
  /\ date_string \in DateStrings
  /\ duration \in Durations
  /\ master_dpl \in BOOLEAN
  /\ base_salary = Euro(salary_in)
  /\ eligible = FALSE
  /\ Ruling_test = FALSE
  /\ current_year = 0
  /\ months_remaining_init = 0
  /\ months_remaining_final = 0
  /\ my_dict = NoDict
  /\ year1 = 0
  /\ year5 = 0
  /\ idx = 0
  /\ pc = "eligibility"
  /\ raised = "none"

TaxIdle ==
  /\ taxArgs = <<0, 0>>
  /\ taxCalls = <<>>

AggResultsUnset ==
  /\ netnet = 0
  /\ pocket = 0
  /\ net_taxx = NoDict
  /\ netto_disposablee = NoDict
  /\ return_net_incomee = 0

AggIdle ==
  /\ essential_costs = 0
  /\ AggResultsUnset

NoPayload == <<>>
SessionIdle ==
  /\ job = ""
  /\ last_payload = NoPayload
  /\ submissions = 0

\* INITIATE KEY PARAMETERS, eligible flag
Eligibility ==
  /\ pc = "eligibility"
  /\ eligible' = Eligible(variant, age, salary_in, master_dpl)
  /\ pc' = "parse"
  /\ UNCHANGED <<variant, age, salary_in, date_string, duration, master_dpl,
                 base_salary, Ruling_test, current_year,
                 months_remaining_init, months_remaining_final, my_dict,
                 year1, year5, idx, raised, taxArgs, taxCalls, aggVars, sessionVars>>

\* start_date, current_year, months_remaining_init / _final
ParseDate ==
  /\ pc = "parse"
  /\ LET r == strptime(date_string) IN
       IF r.raised
       THEN /\ Raise("ValueError")
            /\ UNCHANGED <<current_year, months_remaining_init,
                           months_remaining_final>>
       ELSE /\ current_year' = r.year
            /\ months_remaining_init' = 12 - r.month + 1
            /\ months_remaining_final' = 12 - (12 - r.month + 1)
            /\ pc' = "build"
            /\ raised' = raised
  /\ UNCHANGED <<variant, age, salary_in, date_string, duration, master_dpl,
                 base_salary, eligible, Ruling_test, my_dict,
                 year1, year5, idx, taxArgs, taxCalls, aggVars, sessionVars>>

\* years_sequence and the dictionary of "" placeholders
BuildDict ==
  /\ pc = "build"
  /\ my_dict' = [y \in {keys_list[i] : i \in 1..Len(keys_list)} |-> <<>>]
  /\ pc' = "ruling_test"
  /\ UNCHANGED <<variant, age, salary_in, date_string, duration, master_dpl,
                 base_salary, eligible, Ruling_test, current_year,
                 months_remaining_init, months_remaining_final,
                 year1, year5, idx, raised, taxArgs, taxCalls, aggVars, sessionVars>>

\* CHECK IF 30% RULING WILL APPLY
RulingTestStep ==
  /\ pc = "ruling_test"
  /\ Ruling_test' = RulingTest(age, eligible, master_dpl, salary_in)
  /\ pc' = "cap"
  /\ UNCHANGED <<variant, age, salary_in, date_string, duration, master_dpl,
                 base_salary, eligible, current_year,
                 months_remaining_init, months_remaining_final, my_dict,
                 year1, year5, idx, raised, taxArgs, taxCalls, aggVars, sessionVars>>

\* CALCULATION BASE, then the branch on Ruling_test
CapSalary ==
  /\ pc = "cap"
  /\ base_salary' = CapBase(variant, salary_in)
  /\ pc' = IF Ruling_test THEN "year1" ELSE "fill_all"
  /\ UNCHANGED <<variant, age, salary_in, date_string, duration, master_dpl,
                 eligible, Ruling_test, current_year,
                 months_remaining_init, months_remaining_final, my_dict,
                 year1, year5, idx, raised, taxArgs, taxCalls, aggVars, sessionVars>>

\* year1 = apply_ruling(base_salary, months_remaining_init, int(keys_list[0]), 0)
Year1 ==
  /\ pc = "year1"
  /\ IF Len(keys_list) < 1
     THEN Raise("IndexError") /\ year1' = year1
     ELSE LET r == apply_ruling(base_salary, months_remaining_init,
                                keys_list[1], 0) IN
            IF r.raised
            THEN Raise("UnboundLocalError") /\ year1' = year1
            ELSE year1' = r.value /\ pc' = "year5" /\ raised' = raised
  /\ UNCHANGED <<variant, age, salary_in, date_string, duration, master_dpl,
                 base_salary, eligible, Ruling_test, current_year,
                 months_remaining_init, months_remaining_final, my_dict,
                 year5, idx, taxArgs, taxCalls, aggVars, sessionVars>>

\* year5 = apply_ruling(base_salary, months_remaining_final, int(keys_list[4]), 2)
Year5 ==
  /\ pc = "year5"
  /\ IF Len(keys_list) < 5
     THEN Raise("IndexError") /\ year5' = year5
     ELSE LET r == apply_ruling(base_salary, months_remaining_final,
                                keys_list[5], 2) IN
            IF r.raised
            THEN Raise("UnboundLocalError") /\ year5' = year5
            ELSE year5' = r.value /\ pc' = "assign" /\ raised' = raised
  /\ UNCHANGED <<variant, age, salary_in, date_string, duration, master_dpl,
                 base_salary, eligible, Ruling_test, current_year,
                 months_remaining_init, months_remaining_final, my_dict,
                 year1, idx, taxArgs, taxCalls, aggVars, sessionVars>>

\* my_dict[keys[0]] = year1; my_dict[keys[4]] = year5;
\* other_years_sequence = list(keys_list[1:5])
AssignEnds ==
  /\ pc = "assign"
  /\ my_dict' = [my_dict EXCEPT ![keys_list[1]] = <<year1>>,
                                ![keys_list[5]] = <<year5>>]
  /\ idx' = 2
  /\ pc' = "others"
  /\ UNCHANGED <<variant, age, salary_in, date_string, duration, master_dpl,
                 base_salary, eligible, Ruling_test, current_year,
                 months_remaining_init, months_remaining_final,
                 year1, year5, raised, taxArgs, taxCalls, aggVars, sessionVars>>

\* last position (1-based) of the slice keys_list[1:5]
OthersEnd == 5

\* one iteration of "for key in other_years_sequence"
OtherYear ==
  /\ pc = "others"
  /\ idx <= Min(OthersEnd, Len(keys_list))
  /\ LET key == keys_list[idx] IN
       IF variant = "core" \/ key >= 2027
       THEN my_dict' = [my_dict EXCEPT
                          ![key] = <<apply_ruling(base_salary, 12, key, 1).value>>]
       ELSE my_dict' = my_dict
  /\ idx' = idx + 1
  /\ UNCHANGED <<variant, age, salary_in, date_string, duration, master_dpl,
                 base_salary, eligible, Ruling_test, current_year,
                 months_remaining_init, months_remaining_final,
                 year1, year5, pc, raised, taxArgs, taxCalls, aggVars, sessionVars>>

\* core/tax.py: the loop is exhausted, no else clause
OtherYearsDone ==
  /\ pc = "others"
  /\ variant = "core"
  /\ idx > Min(OthersEnd, Len(keys_list))
  /\ pc' = "remainder"
  /\ UNCHANGED <<variant, age, salary_in, date_string, duration, master_dpl,
                 base_salary, eligible, Ruling_test, current_year,
                 months_remaining_init, months_remaining_final, my_dict,
                 year1, year5, idx, raised, taxArgs, taxCalls, aggVars, sessionVars>>

\* Salary_Calculator.py: the else belongs to the for; it runs once when the
\* loop is exhausted, with key still bound to the last key of the slice
OtherYearsElse ==
  /\ pc = "others"
  /\ variant = "calculator"
  /\ idx > Min(OthersEnd, Len(keys_list))
  /\ LET key == keys_list[idx - 1] IN
       my_dict' = [my_dict EXCEPT
                     ![key] = <<apply_ruling(base_salary, 12, key, 1).value>>]
  /\ pc' = "remainder"
  /\ UNCHANGED <<variant, age, salary_in, date_string, duration, master_dpl,
                 base_salary, eligible, Ruling_test, current_year,
                 months_remaining_init, months_remaining_final,
                 year1, year5, idx, raised, taxArgs, taxCalls, aggVars, sessionVars>>

\* keys_list[5:]
RemainderKeysFromSixth(keys) == {keys[i] : i \in 7..Len(keys)}

RemainderKeys(keys) == {keys[i] : i \in 6..Len(keys)}

\* for key in keys_list[5:]: my_dict[key] = float(base_salary); return my_dict
Remainder ==
  /\ pc = "remainder"
  /\ my_dict' = [y \in DOMAIN my_dict |->
                   IF y \in RemainderKeys(keys_list)
                   THEN <<base_salary>> ELSE my_dict[y]]
  /\ pc' = "returned"
  /\ UNCHANGED <<variant, age, salary_in, date_string, duration, master_dpl,
                 base_salary, eligible, Ruling_test, current_year,
                 months_remaining_init, months_remaining_final,
                 year1, year5, idx, raised, taxArgs, taxCalls, aggVars, sessionVars>>

\* not eligible: for key in keys_list: my_dict[key] = float(base_salary); return
FillAll ==
  /\ pc = "fill_all"
  /\ my_dict' = [y \in DOMAIN my_dict |-> <<base_salary>>]
  /\ pc' = "returned"
  /\ UNCHANGED <<variant, age, salary_in, date_string, duration, master_dpl,
                 base_salary, eligible, Ruling_test, current_year,
                 months_remaining_init, months_remaining_final,
                 year1, year5, idx, raised, taxArgs, taxCalls, aggVars, sessionVars>>

Init == InitRuling /\ TaxIdle /\ AggIdle /\ SessionIdle

Next ==
  \/ Eligibility
  \/ ParseDate
  \/ BuildDict
  \/ RulingTestStep
  \/ CapSalary
  \/ Year1
  \/ Year5
  \/ AssignEnds
  \/ OtherYear
  \/ OtherYearsDone
  \/ OtherYearsElse
  \/ Remainder
  \/ FillAll

Spec == Init /\ [][Next]_vars

----------------------------------------------------------------------------
(* Exact products amount * rate: the value q + r/den, 0 <= r < den *)

MulRate(x, rate) ==
  [q |-> (x \div rate.den) * rate.num + ((x % rate.den) * rate.num) \div rate.den,
   r |-> ((x % rate.den) * rate.num) % rate.den]
AddFrac(v, w, den) ==
  [q |-> v.q + w.q + ((v.r + w.r) \div den), r |-> (v.r + w.r) % den]
\* m - v for a whole amount m
SubFrom(m, v, den) ==
  IF v.r = 0 THEN [q |-> m - v.q, r |-> 0]
  ELSE [q |-> m - v.q - 1, r |-> den - v.r]
\* round(v, 2): to the nearest cent (2 units), ties to the even cent
round2(v, den) ==
  LET c == v.q \div 2
      rem == (v.q % 2) * den + v.r
  IN IF rem > den THEN 2 * (c + 1)
     ELSE IF rem = den THEN 2 * (c + (c % 2))
     ELSE 2 * c

Returned(x) == [raised |-> FALSE, value |-> x]
ValueError == [raised |-> TRUE, value |-> 0]

----------------------------------------------------------------------------
(* calc_tax *)

RateDen == 10000
brackets_rates_swapped ==
  << [upper |-> Euro(38441), inf |-> FALSE, rate |-> [num |-> 3748, den |-> RateDen]],
     [upper |-> Euro(76817), inf |-> FALSE, rate |-> [num |-> 3582, den |-> RateDen]],
     [upper |-> 0,           inf |-> TRUE,  rate |-> [num |-> 4950, den |-> RateDen]] >>

brackets ==
  << [upper |-> Euro(38441), inf |-> FALSE, rate |-> [num |-> 3582, den |-> RateDen]],
     [upper |-> Euro(76817), inf |-> FALSE, rate |-> [num |-> 3748, den |-> RateDen]],
     [upper |-> 0,           inf |-> TRUE,  rate |-> [num |-> 4950, den |-> RateDen]] >>

\* tax += slice_amount * rate
AccumulateTaxOverwrite(tax, slice_amount, rate) == MulRate(slice_amount, rate)

AccumulateTax(tax, slice_amount, rate) ==
  AddFrac(tax, MulRate(slice_amount, rate), RateDen)

\* lower_limit = upper_limit
AdvanceLowerStuck(lower_limit, b) == lower_limit

AdvanceLower(lower_limit, b) == b.upper

\* if taxable_income <= upper_limit: break
TaxedEntireAlways(taxable_income, b) == TRUE

TaxedEntire(taxable_income, b) == ~b.inf /\ taxable_income <= b.upper

RECURSIVE TaxLoop(_, _, _, _)
TaxLoop(taxable_income, i, tax, lower_limit) ==
  IF i > Len(brackets) THEN tax
  ELSE LET b == brackets[i]
           top == IF b.inf THEN taxable_income
                  ELSE Min(taxable_income, b.upper)
           slice_amount == Max(0, top - lower_limit)
       IN IF slice_amount <= 0 THEN tax
          ELSE IF TaxedEntire(taxable_income, b)
          THEN AccumulateTax(tax, slice_amount, b.rate)
          ELSE TaxLoop(taxable_income, i + 1,
                       AccumulateTax(tax, slice_amount, b.rate),
                       AdvanceLower(lower_limit, b))

calc_tax(gross_salary) ==
  IF gross_salary < 0 THEN ValueError
  ELSE Returned(round2(TaxLoop(gross_salary, 1, [q |-> 0, r |-> 0], 0), RateDen))

----------------------------------------------------------------------------
(* bereken_arbeidskorting *)

GRENS_1 == 11491
GRENS_2 == 24821
GRENS_3 == 39958
GRENS_4 == 124934
MAX_KORTING == 4152
\* the build-up at the phase-out rate
OPBOUW_TARIEF_as_afbouw == [num |-> 600, den |-> 10000]

OPBOUW_TARIEF == [num |-> 3115, den |-> 10000]
AFBOUW_TARIEF == [num |-> 600, den |-> 10000]

\* max(korting, 0)
NoFloor(korting) == korting

FloorZero(korting) == IF korting.q < 0 THEN [q |-> 0, r |-> 0] ELSE korting

bereken_arbeidskorting(salaris) ==
  IF salaris < 0 THEN ValueError
  ELSE IF salaris <= Euro(GRENS_1) THEN Returned(0)
  ELSE IF salaris <= Euro(GRENS_2)
  THEN Returned(round2(MulRate(salaris - Euro(GRENS_1), OPBOUW_TARIEF),
                       OPBOUW_TARIEF.den))
  ELSE IF salaris <= Euro(GRENS_3) THEN Returned(Euro(MAX_KORTING))
  ELSE IF salaris <= Euro(GRENS_4)
  THEN Returned(round2(FloorZero(SubFrom(Euro(MAX_KORTING),
                                         MulRate(salaris - Euro(GRENS_3), AFBOUW_TARIEF),
                                         AFBOUW_TARIEF.den)),
                       AFBOUW_TARIEF.den))
  ELSE Returned(0)

----------------------------------------------------------------------------
(* bereken_algemene_heffingskorting *)

MAXIMUM_KORTING == 3362
AFBOUW_ONDERGRENS == 24812
AFBOUW_BOVENGRENS == 76421
\* the phase-out at 6% instead of 6.007%
AHK_AFBOUW_TARIEF_6pct == [num |-> 6000, den |-> 100000]

AHK_AFBOUW_TARIEF == [num |-> 6007, den |-> 100000]

AhkPhases(salaris) ==
  IF salaris <= Euro(AFBOUW_ONDERGRENS) THEN Returned(Euro(MAXIMUM_KORTING))
  ELSE IF salaris <= Euro(AFBOUW_BOVENGRENS)
  THEN Returned(round2(FloorZero(SubFrom(Euro(MAXIMUM_KORTING),
                                         MulRate(salaris - Euro(AFBOUW_ONDERGRENS),
                                                 AHK_AFBOUW_TARIEF),
                                         AHK_AFBOUW_TARIEF.den)),
                       AHK_AFBOUW_TARIEF.den))
  ELSE Returned(0)

bereken_algemene_heffingskorting_unguarded(salaris) == AhkPhases(salaris)

bereken_algemene_heffingskorting(salaris) ==
  IF salaris < 0 THEN ValueError ELSE AhkPhases(salaris)

----------------------------------------------------------------------------
(* Calls of the three tax functions on two drawn amounts *)

MaxDelta == 1
MaxCalls == 2

TaxEdges == {0, GRENS_1, AFBOUW_ONDERGRENS, GRENS_2, 38441, GRENS_3,
             AFBOUW_BOVENGRENS, 76817, 109158, GRENS_4}
\* amounts in whole cents around every phase and bracket edge, and a few more
TaxInputs ==
  {Euro(e) + 2 * d : e \in TaxEdges, d \in (-MaxDelta)..MaxDelta}
    \cup {Euro(-1), Euro(30000), Euro(74400), Euro(74520) + 120,
          Euro(100000), Euro(120000), Euro(150000)}

RulingIdle ==
  /\ variant = "core"
  /\ age = 0
  /\ salary_in = 0
  /\ date_string = <<>>
  /\ duration = 0
  /\ master_dpl = FALSE
  /\ base_salary = 0
  /\ eligible = FALSE
  /\ Ruling_test = FALSE
  /\ current_year = 0
  /\ months_remaining_init = 0
  /\ months_remaining_final = 0
  /\ my_dict = NoDict
  /\ year1 = 0
  /\ year5 = 0
  /\ idx = 0
  /\ pc = "idle"
  /\ raised = "none"

InitTax ==
  /\ RulingIdle
  /\ AggIdle
  /\ SessionIdle
  /\ taxArgs \in TaxInputs \X TaxInputs
  /\ taxCalls = <<>>

Call(fn, arg, out) ==
  /\ Len(taxCalls) < MaxCalls
  /\ taxCalls' = Append(taxCalls, [fn |-> fn, arg |-> arg, out |-> out])
  /\ UNCHANGED <<variant, age, salary_in, date_string, duration, master_dpl,
                 base_salary, eligible, Ruling_test, current_year,
                 months_remaining_init, months_remaining_final, my_dict,
                 year1, year5, idx, pc, raised, taxArgs, aggVars, sessionVars>>

CallCalcTax ==
  \E i \in 1..2 : Call("calc_tax", taxArgs[i], calc_tax(taxArgs[i]))

CallArbeidskorting ==
  \E i \in 1..2 :
    Call("bereken_arbeidskorting", taxArgs[i], bereken_arbeidskorting(taxArgs[i]))

CallAlgemeneHeffingskorting ==
  \E i \in 1..2 :
    Call("bereken_algemene_heffingskorting", taxArgs[i],
         bereken_algemene_heffingskorting(taxArgs[i]))

NextTax ==
  \/ CallCalcTax
  \/ CallArbeidskorting
  \/ CallAlgemeneHeffingskorting

SpecTax == InitTax /\ [][NextTax]_vars

----------------------------------------------------------------------------
(* netincome, net_tax, netto_disposable, return_net_income and the          *)
(* calculator's pocket: the aggregation over a returned schedule.           *)
(* A value that the source divides by 12 is carried in twelfths of a unit:  *)
(* a / 12 is the number a read in twelfths, a monthly amount c is 12 * c.   *)

InTwelfths(c) == 12 * c
Abs(x) == IF x < 0 THEN -x ELSE x
\* round(x, 0) of a cent amount: to the nearest euro, ties to the even euro
round0(v) ==
  LET e == v \div Scale
      rem == v % Scale
  IN IF 2 * rem > Scale THEN Euro(e + 1)
     ELSE IF 2 * rem = Scale THEN Euro(e + (e % 2))
     ELSE Euro(e)

\* the column the tax and the credits are applied to: df["Taxable Income"]
TaxBaseGross(taxable, gross) == gross

TaxBase(taxable, gross) == taxable

\* df["Net Tax"] = - (abs(df["Tax"]) - (df["Arbeidskorting"] + df["Algemene Heffingskorting"]))
NetTaxColumnClamped(Tax, Arbeidskorting, Heffingskorting) ==
  Min(0, -(Abs(Tax) - (Arbeidskorting + Heffingskorting)))

NetTaxColumn(Tax, Arbeidskorting, Heffingskorting) ==
  -(Abs(Tax) - (Arbeidskorting + Heffingskorting))

\* one row of the DataFrame; calc_tax("") fails on "" < 0 with TypeError
AggRow(cell, gross) ==
  IF cell = <<>>
  THEN [raised |-> "TypeError", Tax |-> 0, Arbeidskorting |-> 0,
        Heffingskorting |-> 0, NetTax |-> 0]
  ELSE LET x == TaxBase(cell[1], gross) IN
    IF calc_tax(x).raised
    THEN [raised |-> "ValueError", Tax |-> 0, Arbeidskorting |-> 0,
          Heffingskorting |-> 0, NetTax |-> 0]
    ELSE LET Tax == round0(-calc_tax(x).value)
             Arbeidskorting == round0(bereken_arbeidskorting(x).value)
             Heffingskorting == round0(bereken_algemene_heffingskorting(x).value)
         IN [raised |-> "none", Tax |-> Tax, Arbeidskorting |-> Arbeidskorting,
             Heffingskorting |-> Heffingskorting,
             NetTax |-> NetTaxColumn(Tax, Arbeidskorting, Heffingskorting)]

\* pd.DataFrame(list(my_dict.items())) with the computed columns
DfRows(d, gross) == [y \in DOMAIN d |-> AggRow(d[y], gross)]
\* the exception of the first row on which .apply fails
DfRaised(rows) ==
  IF \A y \in DOMAIN rows : rows[y].raised = "none" THEN "none"
  ELSE LET bad == {y \in DOMAIN rows : rows[y].raised # "none"}
       IN rows[CHOOSE y \in bad : \A z \in bad : y <= z].raised
\* .iloc[0]: the first key of the dictionary
first_key(d) == CHOOSE y \in DOMAIN d : \A z \in DOMAIN d : y <= z

\* the gross salary the calculator passes: out['salary']['avg'] * 12
gross_salary == Euro(salary_in)

\* df["Netto Disposable"] = df["Gross Salary"] + df["Net Tax"]
NettoColumn(gross, NetTax) == gross + NetTax

AggCosts == {0, 1500, 4000}
AggSalaries == {-1, 6000, 36000, 50668, 74520, 250000}

InitAgg ==
  /\ variant \in Variants
  /\ age \in {29, 30}
  /\ salary_in \in AggSalaries
  /\ date_string \in DateStrings
  /\ duration \in 1..MaxDuration
  /\ master_dpl \in BOOLEAN
  /\ base_salary = Euro(salary_in)
  /\ eligible = FALSE
  /\ Ruling_test = FALSE
  /\ current_year = 0
  /\ months_remaining_init = 0
  /\ months_remaining_final = 0
  /\ my_dict = NoDict
  /\ year1 = 0
  /\ year5 = 0
  /\ idx = 0
  /\ pc = "eligibility"
  /\ raised = "none"
  /\ TaxIdle
  /\ essential_costs \in {Euro(c) : c \in AggCosts}
  /\ AggResultsUnset
  /\ SessionIdle

\* netnet = netincome(tax dict, costs * 12, salary * 12) / 12;
\* pocket = netnet - out['essential_costs']
NetIncomeCall ==
  /\ pc = "returned"
  /\ LET rows == DfRows(my_dict, gross_salary) IN
       IF DfRaised(rows) # "none"
       THEN /\ Raise(DfRaised(rows))
            /\ UNCHANGED <<netnet, pocket>>
       ELSE /\ netnet' = NettoColumn(gross_salary, rows[first_key(my_dict)].NetTax)
            /\ pocket' = NettoColumn(gross_salary, rows[first_key(my_dict)].NetTax)
                           - InTwelfths(essential_costs)
            /\ pc' = "net_tax"
            /\ raised' = raised
  /\ UNCHANGED <<variant, age, salary_in, date_string, duration, master_dpl,
                 base_salary, eligible, Ruling_test, current_year,
                 months_remaining_init, months_remaining_final, my_dict,
                 year1, year5, idx, taxArgs, taxCalls, sessionVars,
                 essential_costs,
                 net_taxx, netto_disposablee, return_net_incomee>>

\* net_taxx = net_tax(tax dict, ...): {year: Net Tax / 12}
NetTaxCall ==
  /\ pc = "net_tax"
  /\ LET rows == DfRows(my_dict, gross_salary) IN
       IF DfRaised(rows) # "none"
       THEN Raise(DfRaised(rows)) /\ net_taxx' = net_taxx
       ELSE /\ net_taxx' = [y \in DOMAIN my_dict |-> rows[y].NetTax]
            /\ pc' = "netto_disposable"
            /\ raised' = raised
  /\ UNCHANGED <<variant, age, salary_in, date_string, duration, master_dpl,
                 base_salary, eligible, Ruling_test, current_year,
                 months_remaining_init, months_remaining_final, my_dict,
                 year1, year5, idx, taxArgs, taxCalls, sessionVars,
                 essential_costs,
                 netnet, pocket, netto_disposablee, return_net_incomee>>

\* netto_disposablee = netto_disposable(tax dict, ...):
\* {year: (Gross Salary + Net Tax) / 12}
NettoDisposableCall ==
  /\ pc = "netto_disposable"
  /\ LET rows == DfRows(my_dict, gross_salary) IN
       IF DfRaised(rows) # "none"
       THEN Raise(DfRaised(rows)) /\ netto_disposablee' = netto_disposablee
       ELSE /\ netto_disposablee' =
                 [y \in DOMAIN my_dict |-> NettoColumn(gross_salary, rows[y].NetTax)]
            /\ pc' = "return_net_income"
            /\ raised' = raised
  /\ UNCHANGED <<variant, age, salary_in, date_string, duration, master_dpl,
                 base_salary, eligible, Ruling_test, current_year,
                 months_remaining_init, months_remaining_final, my_dict,
                 year1, year5, idx, taxArgs, taxCalls, sessionVars,
                 essential_costs,
                 netnet, pocket, net_taxx, return_net_incomee>>

\* return_net_income(res_tax, out['essential_costs']):
\* Taxable Income + Net Tax - Fixed Costs, set to 0 when negative, first row
ReturnNetIncomeCall ==
  /\ pc = "return_net_income"
  /\ LET rows == DfRows(my_dict, gross_salary) IN
       IF DfRaised(rows) # "none"
       THEN Raise(DfRaised(rows)) /\ return_net_incomee' = return_net_incomee
       ELSE /\ return_net_incomee' =
                 Max(0, my_dict[first_key(my_dict)][1]
                          + rows[first_key(my_dict)].NetTax - essential_costs)
            /\ pc' = "done"
            /\ raised' = raised
  /\ UNCHANGED <<variant, age, salary_in, date_string, duration, master_dpl,
                 base_salary, eligible, Ruling_test, current_year,
                 months_remaining_init, months_remaining_final, my_dict,
                 year1, year5, idx, taxArgs, taxCalls, sessionVars,
                 essential_costs,
                 netnet, pocket, net_taxx, netto_disposablee>>

NextAgg ==
  \/ Next
  \/ NetIncomeCall
  \/ NetTaxCall
  \/ NettoDisposableCall
  \/ ReturnNetIncomeCall

SpecAgg == InitAgg /\ [][NextAgg]_vars

----------------------------------------------------------------------------
(* Properties of expat_ruling_calc (specification Spec) *)

Terminal == pc \in {"returned", "raised"}
DateParses == ~strptime(date_string).raised
\* the call got past the Ruling_test statement
TestDecided ==
  \/ pc \in {"cap", "year1", "year5", "assign", "others", "remainder",
             "fill_all", "returned"}
  \/ pc = "raised" /\ raised # "ValueError"
InReliefBranch ==
  \/ pc \in {"year1", "year5", "assign", "others", "remainder"}
  \/ pc = "raised" /\ raised # "ValueError"
\* the eligibility rule as the specification states it, with the effective
\* thresholds of core/tax.py
StatedEligible ==
  \/ age >= 30 /\ salary_in >= 66657
  \/ age < 30 /\ master_dpl /\ salary_in >= 50668
StatedBase == Euro(Min(salary_in, 233000))
\* a profile inside the documented input domain
ValidProfile == age >= 0 /\ salary_in >= 0 /\ duration >= 1 /\ DateParses

\* C1: for every valid profile (horizon >= 1, parseable start date), eligible
\* or not, core expat_ruling_calc returns a schedule whose keys are exactly
\* the years start_year .. start_year + horizon_years - 1.
C1_ScheduleLength ==
  (variant = "core" /\ ValidProfile /\ Terminal)
    => /\ pc = "returned"
       /\ DOMAIN my_dict = date_string[1]..(date_string[1] + duration - 1)

\* C2: core expat_ruling_calc takes the relief branch if and only if
\* (age >= 30 and salary >= 66657) or (age < 30 and master_dpl and
\* salary >= 50668); Ruling_test always equals the eligible flag, so the
\* 46660 / 35468 thresholds never decide.
C2_EligibilityIff ==
  variant = "core" =>
    /\ TestDecided => (Ruling_test = StatedEligible /\ Ruling_test = eligible)
    /\ InReliefBranch => StatedEligible
    /\ pc = "fill_all" => ~StatedEligible

C2_Witness ==
  /\ variant = "core"
  /\ pc = "year1"
  /\ age < 30
  /\ master_dpl
  /\ salary_in = 50668
  /\ Ruling_test

\* C3: for a profile that is not eligible, core expat_ruling_calc returns,
\* for every horizon and parseable start date, a schedule in which every
\* year's taxable income is the gross salary, or the cap when the salary
\* exceeds the cap.
C3_IneligiblePassthrough ==
  (variant = "core" /\ ~StatedEligible /\ DateParses /\ Terminal)
    => /\ pc = "returned"
       /\ \A y \in DOMAIN my_dict : my_dict[y] = <<StatedBase>>

C3_Witness ==
  /\ variant = "core"
  /\ pc = "returned"
  /\ ~StatedEligible
  /\ salary_in > 233000
  /\ Cardinality(DOMAIN my_dict) >= 2
  /\ \A y \in DOMAIN my_dict : my_dict[y] = <<Euro(233000)>>

\* C4: when the salary exceeds the salary cap, expat_ruling_calc (either
\* copy) computes on the cap, and the cap never makes the profile
\* ineligible: above the cap, relief is decided by age and degree alone.
C4_CapDoesNotGateEligibility ==
  (ValidProfile /\ salary_in > salary_cap(variant)) =>
    /\ pc \in {"year1", "year5", "assign", "others", "remainder", "fill_all",
               "returned"} => base_salary = Euro(salary_cap(variant))
    /\ TestDecided => (Ruling_test = (age >= 30 \/ master_dpl))

\* C5: for an eligible profile with start 1 January 2026 and a horizon of
\* at least 6 years, core expat_ruling_calc returns 70% of the base salary
\* for 2026, 73% for each of 2027..2030 and 100% from 2031 on
\* (salary 74520: 52164.0, 54399.6 four times, 74520.0).
C5_Scenario2026 ==
  (variant = "core" /\ StatedEligible /\ date_string = <<2026, 1, 1>>
     /\ duration >= 6 /\ Terminal)
    => /\ pc = "returned"
       /\ my_dict[2026] = <<(StatedBase \div 100) * 70>>
       /\ \A y \in 2027..2030 : my_dict[y] = <<(StatedBase \div 100) * 73>>
       /\ \A y \in 2031..(2026 + duration - 1) : my_dict[y] = <<StatedBase>>
       /\ salary_in = 74520 =>
            /\ my_dict[2026] = <<52164 * Scale>>
            /\ \A y \in 2027..2030 : my_dict[y] = <<54399 * Scale + 120>>
            /\ \A y \in 2031..(2026 + duration - 1) : my_dict[y] = <<74520 * Scale>>

C5_Witness ==
  /\ variant = "core"
  /\ pc = "returned"
  /\ age >= 30
  /\ salary_in = 74520
  /\ date_string = <<2026, 1, 1>>
  /\ duration >= 6
  /\ my_dict[2026] = <<52164 * Scale>>
  /\ my_dict[2030] = <<54399 * Scale + 120>>
  /\ my_dict[2031] = <<74520 * Scale>>

\* C6: a call of core expat_ruling_calc with horizon_years < 1, a negative
\* age, a negative salary or an unparseable start date always ends in an
\* error and never returns a schedule.
C6_RejectsInvalidInput ==
  (variant = "core" /\ Terminal
     /\ (duration < 1 \/ age < 0 \/ salary_in < 0 \/ ~DateParses))
    => pc = "raised"

----------------------------------------------------------------------------
(* Properties of the tax functions (specification SpecTax) *)

CallIdx == 1..Len(taxCalls)
TaxFns == {"calc_tax", "bereken_arbeidskorting",
           "bereken_algemene_heffingskorting"}

\* C7: calc_tax, bereken_arbeidskorting and bereken_algemene_heffingskorting
\* each raise for every negative input and return an amount, without
\* raising, for every input >= 0.
C7_NegativeInputRejected ==
  \A i \in CallIdx :
    /\ taxCalls[i].fn \in TaxFns
    /\ taxCalls[i].arg < 0 => taxCalls[i].out.raised
    /\ taxCalls[i].arg >= 0 =>
         (~taxCalls[i].out.raised /\ taxCalls[i].out.value \in Int)

C7_Witness ==
  /\ Len(taxCalls) = 2
  /\ taxCalls[1].fn = "bereken_algemene_heffingskorting"
  /\ taxCalls[1].arg < 0
  /\ taxCalls[1].out.raised
  /\ taxCalls[2].fn = "calc_tax"
  /\ taxCalls[2].arg = 0
  /\ ~taxCalls[2].out.raised

\* C8: calc_tax is monotonic non-decreasing: for taxable incomes
\* 0 <= a < b, calc_tax(a) <= calc_tax(b).
C8_TaxMonotonic ==
  \A i, j \in CallIdx :
    (taxCalls[i].fn = "calc_tax" /\ taxCalls[j].fn = "calc_tax"
       /\ 0 <= taxCalls[i].arg /\ taxCalls[i].arg < taxCalls[j].arg)
      => /\ ~taxCalls[i].out.raised
         /\ ~taxCalls[j].out.raised
         /\ taxCalls[i].out.value <= taxCalls[j].out.value

C8_Witness ==
  /\ Len(taxCalls) = 2
  /\ taxCalls[1].fn = "calc_tax"
  /\ taxCalls[2].fn = "calc_tax"
  /\ taxCalls[1].arg = Euro(38441)
  /\ taxCalls[2].arg = Euro(76817) + 2
  /\ taxCalls[1].out.value < taxCalls[2].out.value

\* marginal rate (numerator over RateDen) of the bracket above edge e
RateAbove(e) == IF e = Euro(38441) THEN 3748 ELSE 4950

\* C9: at each bracket edge e in {38441, 76817}, calc_tax(e + 0.01) and
\* calc_tax(e) differ by 0.01 times the marginal rate of the next bracket,
\* up to the rounding of the two results to cents.
C9_NoJumpAtEdge ==
  \A i, j \in CallIdx :
    (taxCalls[i].fn = "calc_tax" /\ taxCalls[j].fn = "calc_tax"
       /\ taxCalls[i].arg \in {Euro(38441), Euro(76817)}
       /\ taxCalls[j].arg = taxCalls[i].arg + 2)
      => LET d == taxCalls[j].out.value - taxCalls[i].out.value
             num == RateAbove(taxCalls[i].arg)
         \* |d - 2 * num / RateDen| <= 2 units (one cent), on whole numbers
         IN /\ d >= -((2 * (RateDen - num)) \div RateDen)
            /\ d <= (2 * (RateDen + num)) \div RateDen

C9_Witness ==
  /\ Len(taxCalls) = 2
  /\ taxCalls[1].fn = "calc_tax"
  /\ taxCalls[2].fn = "calc_tax"
  /\ taxCalls[1].arg = Euro(76817)
  /\ taxCalls[2].arg = Euro(76817) + 2
  /\ taxCalls[2].out.value = taxCalls[1].out.value + 2

\* C10: for every salary >= 0 both credits are >= 0; the labor credit is 0
\* once its phase-out has used up the maximum and above its last boundary,
\* the general credit is 0 above its last boundary.
C10_CreditsNonNegative ==
  \A i \in CallIdx :
    (taxCalls[i].fn \in {"bereken_arbeidskorting",
                         "bereken_algemene_heffingskorting"}
       /\ taxCalls[i].arg >= 0)
      => /\ ~taxCalls[i].out.raised
         /\ taxCalls[i].out.value >= 0
         /\ (taxCalls[i].fn = "bereken_arbeidskorting"
               /\ taxCalls[i].arg >= Euro(109158))
              => taxCalls[i].out.value = 0
         /\ (taxCalls[i].fn = "bereken_algemene_heffingskorting"
               /\ taxCalls[i].arg > Euro(76421))
              => taxCalls[i].out.value = 0

C10_Witness ==
  /\ Len(taxCalls) = 2
  /\ taxCalls[1].fn = "bereken_arbeidskorting"
  /\ taxCalls[1].arg = Euro(120000)
  /\ taxCalls[1].out.value = 0
  /\ taxCalls[2].fn = "bereken_algemene_heffingskorting"
  /\ taxCalls[2].arg = Euro(76421)
  /\ taxCalls[2].out.value > 0

----------------------------------------------------------------------------
(* Further properties of the tax functions (specification SpecTax) *)

\* C11: for every salary >= 0 the labor credit is at most 4152.00 and the
\* general credit at most 3362.00, also at the top of the labor credit's
\* build-up phase (salary 24821).
C11_CreditsBounded ==
  \A i \in CallIdx :
    (taxCalls[i].arg >= 0 /\ ~taxCalls[i].out.raised) =>
      /\ taxCalls[i].fn = "bereken_arbeidskorting"
           => taxCalls[i].out.value <= Euro(4152)
      /\ taxCalls[i].fn = "bereken_algemene_heffingskorting"
           => taxCalls[i].out.value <= Euro(3362)

\* C15 as stated: calc_tax(74520.6) returns 27291.75.
C15_ScenarioB_AsStated ==
  \A i \in CallIdx :
    (taxCalls[i].fn = "calc_tax" /\ taxCalls[i].arg = Euro(74520) + 120)
      => taxCalls[i].out = Returned(27291 * Scale + 150)

\* C15 (amended): calc_tax(74520.6) returns 27292.20: 38441 at 35.82% gives
\* 13769.5662, the remaining 36079.6 at 37.48% gives 13522.63408, the third
\* bracket gives nothing, and the sum 27292.20028 is rounded to 2 decimals.
C15_ScenarioB ==
  \A i \in CallIdx :
    (taxCalls[i].fn = "calc_tax" /\ taxCalls[i].arg = Euro(74520) + 120)
      => /\ taxCalls[i].out = Returned(27292 * Scale + 40)
         /\ taxCalls[i].out.value
              = round2(AddFrac([q |-> 13769 * Scale + 113, r |-> 2400],
                               [q |-> 13522 * Scale + 126, r |-> 8160],
                               RateDen), RateDen)

C15_Witness ==
  /\ Len(taxCalls) >= 1
  /\ taxCalls[1].fn = "calc_tax"
  /\ taxCalls[1].arg = Euro(74520) + 120
  /\ taxCalls[1].out.value = 27292 * Scale + 40

----------------------------------------------------------------------------
(* Further properties of expat_ruling_calc (specification Spec) *)

StartYear == date_string[1]
StartMonth == date_string[2]

\* C16: the copy in Salary_Calculator.py applies the ruling exactly when
\* the expat is under 30 with a master's degree and earns at least 35468,
\* or is 30 or older and earns at least 46660 (its docstring).
C16_DocstringEligibility ==
  (variant = "calculator" /\ ValidProfile /\ TestDecided)
    => Ruling_test = (\/ age < 30 /\ master_dpl /\ salary_in >= 35468
                      \/ age >= 30 /\ salary_in >= 46660)

\* C17: for every eligible profile and any start date, the first schedule
\* year has months_at_relief = 12 - start_month + 1 and taxable income
\* base - base * 0.30 / 12 * months_at_relief.
C17_RampStart ==
  (variant = "core" /\ ValidProfile /\ StatedEligible /\ duration >= 5
     /\ Terminal)
    => /\ pc = "returned"
       /\ months_remaining_init = 12 - StartMonth + 1
       /\ my_dict[StartYear]
            = <<StatedBase
                  - (((StatedBase \div 100) * 30) * (12 - StartMonth + 1)) \div 12>>

\* tier (percent) of a full-relief calendar year
StatedTier(y) == IF y \in {2025, 2026} THEN 30 ELSE 27

StatedSplit(t, m) ==
  (((StatedBase - (StatedBase \div 100) * t) * m) + StatedBase * (12 - m)) \div 12

\* C19: for an eligible profile whose start is not in January, the value
\* stored for the last relief year (index 4) is the split value with
\* months_at_relief = 12 - (months at relief in the first year), not a
\* full-year relief value.
C19_RampEnd ==
  (variant = "core" /\ ValidProfile /\ pc = "returned" /\ StatedEligible
     /\ StartMonth # 1) =>
    /\ months_remaining_final = 12 - (12 - StartMonth + 1)
    /\ my_dict[StartYear + 4] \in {<<StatedSplit(30, StartMonth - 1)>>,
                                   <<StatedSplit(27, StartMonth - 1)>>}

\* C20: a returned schedule covers the whole horizon, and every year after
\* the relief window (index >= 5) is there with the base salary as taxable
\* income.
C20_NoReliefAfterWindow ==
  (variant = "core" /\ pc = "returned") =>
    /\ DOMAIN my_dict = StartYear..(StartYear + Max(duration, 0) - 1)
    /\ \A y \in DOMAIN my_dict :
         y >= StartYear + 5 => my_dict[y] = <<StatedBase>>

C20_Witness ==
  /\ variant = "core"
  /\ pc = "returned"
  /\ StatedEligible
  /\ duration >= 6
  /\ my_dict[StartYear + 4] # <<StatedBase>>
  /\ my_dict[StartYear + 5] = <<StatedBase>>

----------------------------------------------------------------------------
(* Properties of the aggregation (specification SpecAgg) *)

\* the rounded columns on an income x: tax owed and the sum of both credits
StatedTaxOwed(x) == round0(calc_tax(x).value)
StatedCredits(x) ==
  round0(bereken_arbeidskorting(x).value)
    + round0(bereken_algemene_heffingskorting(x).value)
AggDone == pc = "done"
FirstTaxable == my_dict[first_key(my_dict)][1]

\* C12: the net tax of every year is credits - tax owed (whole-euro
\* columns, computed on the year's taxable income) with its sign kept and
\* no clamp at zero; when the credits exceed the tax the figure is a
\* non-zero subsidy and the net income exceeds the income base.
C12_NetTaxKeepsSign ==
  AggDone =>
    /\ \A y \in DOMAIN my_dict :
         /\ net_taxx[y] = StatedCredits(my_dict[y][1]) - StatedTaxOwed(my_dict[y][1])
         /\ StatedCredits(my_dict[y][1]) > StatedTaxOwed(my_dict[y][1]) =>
              /\ net_taxx[y] > 0
              /\ netto_disposablee[y] > gross_salary
    /\ StatedCredits(FirstTaxable) > StatedTaxOwed(FirstTaxable) =>
         /\ netnet > gross_salary
         /\ essential_costs = 0 => return_net_incomee > FirstTaxable

C12_Witness ==
  /\ AggDone
  /\ essential_costs = 0
  /\ \E y \in DOMAIN my_dict : net_taxx[y] > 0
  /\ return_net_incomee > FirstTaxable

\* C13: for every year the reported monthly disposable income is
\* max(0, net annual income / 12 - fixed monthly costs), so neither the
\* pocket figure nor any year of netto_disposable is negative or leaves
\* the fixed costs in.
C13_DisposableFloored ==
  AggDone =>
    /\ pocket = Max(0, netnet - InTwelfths(essential_costs))
    /\ \A y \in DOMAIN my_dict :
         netto_disposablee[y] =
           Max(0, gross_salary + net_taxx[y] - InTwelfths(essential_costs))

----------------------------------------------------------------------------
(* Further properties of expat_ruling_calc (specification Spec) *)

\* the relief rate (percent) a schedule cell was computed with: 0 for the
\* base salary, 27 for a full year at the second tier, 30 for 1..12 months
\* at the top tier, -1 for anything else
ReliefTier(cell, base) ==
  IF cell = <<base>> THEN 0
  ELSE IF cell = <<base - ((base \div 100) * 27)>> THEN 27
  ELSE IF \E m \in 1..12 :
            cell = <<base - ((((base \div 100) * 30) * m) \div 12)>> THEN 30
  ELSE -1

----------------------------------------------------------------------------
(* Further properties of the tax functions (specification SpecTax) *)

\* sum over the three brackets of max(0, min(x, upper) - lower) * rate
StatedBracketSum(x) ==
  AddFrac(AddFrac(MulRate(Max(0, Min(x, Euro(38441))), [num |-> 3582, den |-> 10000]),
                  MulRate(Max(0, Min(x, Euro(76817)) - Euro(38441)),
                          [num |-> 3748, den |-> 10000]),
                  10000),
          MulRate(Max(0, x - Euro(76817)), [num |-> 4950, den |-> 10000]),
          10000)

\* C22: for every taxable income x >= 0, calc_tax(x) is the sum over the
\* three brackets of max(0, min(x, upper) - lower) * rate, rounded to 2
\* decimals; no early exit drops a contributing bracket; calc_tax(0) = 0.
C22_BracketSum ==
  \A i \in CallIdx :
    (taxCalls[i].fn = "calc_tax" /\ taxCalls[i].arg >= 0) =>
      /\ ~taxCalls[i].out.raised
      /\ taxCalls[i].out.value = round2(StatedBracketSum(taxCalls[i].arg), 10000)
      /\ taxCalls[i].arg = 0 => taxCalls[i].out.value = 0

C22_Witness ==
  /\ Len(taxCalls) = 2
  /\ taxCalls[1].fn = "calc_tax" /\ taxCalls[1].arg = 0
  /\ taxCalls[2].fn = "calc_tax" /\ taxCalls[2].arg > Euro(76817)
  /\ taxCalls[2].out.value > Euro(28152)

\* the four-phase table of the labor credit, rounded to cents
StatedLaborCredit(s) ==
  IF s <= Euro(11491) THEN 0
  ELSE IF s <= Euro(24821)
  THEN round2(MulRate(s - Euro(11491), [num |-> 3115, den |-> 10000]), 10000)
  ELSE IF s <= Euro(39958) THEN Euro(4152)
  ELSE IF s <= Euro(124934)
  THEN Max(0, round2(SubFrom(Euro(4152),
                             MulRate(s - Euro(39958), [num |-> 6, den |-> 100]),
                             100), 100))
  ELSE 0

\* C23: for every salary s >= 0, bereken_arbeidskorting(s) is 0 up to
\* 11491, (s - 11491) * 31.15% up to 24821, 4152 up to 39958,
\* max(0, 4152 - (s - 39958) * 6%) up to 124934, and 0 above; every
\* boundary belongs to the phase below it.
C23_LaborCreditTable ==
  \A i \in CallIdx :
    (taxCalls[i].fn = "bereken_arbeidskorting" /\ taxCalls[i].arg >= 0) =>
      /\ ~taxCalls[i].out.raised
      /\ taxCalls[i].out.value = StatedLaborCredit(taxCalls[i].arg)
      /\ taxCalls[i].arg = Euro(30000) => taxCalls[i].out.value = Euro(4152)

C23_Witness ==
  /\ Len(taxCalls) = 2
  /\ taxCalls[1].fn = "bereken_arbeidskorting"
  /\ taxCalls[1].arg = Euro(24821) - 2
  /\ taxCalls[1].out.value > Euro(4000)
  /\ taxCalls[2].fn = "bereken_arbeidskorting"
  /\ taxCalls[2].arg = Euro(74400)
  /\ taxCalls[2].out.value = Euro(2085) + 96

\* the three-phase table of the general credit, rounded to cents
StatedGeneralCredit(s) ==
  IF s <= Euro(24812) THEN Euro(3362)
  ELSE IF s <= Euro(76421)
  THEN Max(0, round2(SubFrom(Euro(3362),
                             MulRate(s - Euro(24812),
                                     [num |-> 6007, den |-> 100000]),
                             100000), 100000))
  ELSE 0

\* C24: for every salary s >= 0, bereken_algemene_heffingskorting(s) is
\* 3362 up to 24812, max(0, 3362 - (s - 24812) * 6.007%) up to 76421, and 0
\* above.
C24_GeneralCreditTable ==
  \A i \in CallIdx :
    (taxCalls[i].fn = "bereken_algemene_heffingskorting"
       /\ taxCalls[i].arg >= 0) =>
      /\ ~taxCalls[i].out.raised
      /\ taxCalls[i].out.value = StatedGeneralCredit(taxCalls[i].arg)
      /\ taxCalls[i].arg = Euro(100000) => taxCalls[i].out.value = 0

C24_Witness ==
  /\ Len(taxCalls) = 2
  /\ taxCalls[1].fn = "bereken_algemene_heffingskorting"
  /\ taxCalls[1].arg = Euro(100000)
  /\ taxCalls[2].fn = "bereken_algemene_heffingskorting"
  /\ taxCalls[2].arg = Euro(74400)
  /\ taxCalls[2].out.value > 0
  /\ taxCalls[2].out.value < Euro(3362)

\* the phase boundaries of a credit function
PhaseBoundaries(fn) ==
  IF fn = "bereken_arbeidskorting"
  THEN {Euro(11491), Euro(24821), Euro(39958), Euro(124934)}
  ELSE IF fn = "bereken_algemene_heffingskorting"
  THEN {Euro(24812), Euro(76421)}
  ELSE {}

\* C25: at every phase boundary of the labor credit and of the general
\* credit, the credit one cent above the boundary differs from the credit
\* at the boundary by no more than one euro.
C25_CreditsContinuous ==
  \A i, j \in CallIdx :
    (taxCalls[i].fn = taxCalls[j].fn
       /\ taxCalls[i].arg \in PhaseBoundaries(taxCalls[i].fn)
       /\ taxCalls[j].arg = taxCalls[i].arg + 2)
      => /\ taxCalls[j].out.value - taxCalls[i].out.value <= Euro(1)
         /\ taxCalls[i].out.value - taxCalls[j].out.value <= Euro(1)

----------------------------------------------------------------------------
(* Further properties of expat_ruling_calc, continued (specification Spec) *)

\* C26: apply_ruling returns a taxable income for every months_dur in
\* 0..12 and every year_seq in 0..3 (the base salary in its fall-through
\* branch), so expat_ruling_calc completes for an eligible profile whose
\* ruling starts in any calendar year.
C26_ApplyRulingTotal ==
  (variant = "core" /\ ValidProfile /\ StatedEligible /\ duration >= 5
     /\ Terminal) =>
    /\ \A m \in 0..12, year_seq \in 0..3 :
         ~apply_ruling(base_salary, m, StartYear, year_seq).raised
    /\ \A m \in 0..12 :
         apply_ruling(base_salary, m, StartYear, 3).value = base_salary
    /\ raised = "none"

\* months at relief behind a schedule cell: 0 for the base salary, 12 for a
\* full year at the second tier, m for m months at the top tier
MonthsAtRelief(cell, base) ==
  IF cell = <<base>> THEN 0
  ELSE IF cell = <<base - ((base \div 100) * 27)>> THEN 12
  ELSE IF \E m \in 1..12 :
            cell = <<base - ((((base \div 100) * 30) * m) \div 12)>>
  THEN CHOOSE m \in 1..12 :
         cell = <<base - ((((base \div 100) * 30) * m) \div 12)>>
  ELSE 0
RECURSIVE TotalMonthsAtRelief(_, _, _)
TotalMonthsAtRelief(d, y, base) ==
  IF y \notin DOMAIN d THEN 0
  ELSE MonthsAtRelief(d[y], base) + TotalMonthsAtRelief(d, y + 1, base)

\* C27: for every eligible profile with a horizon of at least 6 years the
\* months at relief summed over the returned schedule are exactly 60,
\* whatever the start month.
C27_SixtyMonths ==
  (variant = "core" /\ ValidProfile /\ StatedEligible /\ duration >= 6
     /\ pc = "returned") =>
    TotalMonthsAtRelief(my_dict, StartYear, StatedBase) = 60

----------------------------------------------------------------------------
(* apply_nl_taxes_2025 (boilerplates/taxes_plus_ruling.py) next to calc_tax *)

nl_brackets ==
  << [upper |-> Euro(38441), inf |-> FALSE, rate |-> [num |-> 3582, den |-> RateDen]],
     [upper |-> Euro(76817), inf |-> FALSE, rate |-> [num |-> 3748, den |-> RateDen]],
     [upper |-> 0,           inf |-> TRUE,  rate |-> [num |-> 4950, den |-> RateDen]] >>

\* last_cap = cap
NlAdvanceCapStuck(last_cap, b) == last_cap

NlAdvanceCap(last_cap, b) == b.upper

RECURSIVE NlLoop(_, _, _, _)
NlLoop(i, tax, last_cap, remaining) ==
  IF i > Len(nl_brackets) THEN tax
  ELSE LET b == nl_brackets[i]
           income_in_bracket == IF b.inf THEN remaining
                                ELSE Min(remaining, b.upper - last_cap)
           tax2 == IF income_in_bracket > 0
                   THEN AddFrac(tax, MulRate(income_in_bracket, b.rate), RateDen)
                   ELSE tax
           remaining2 == IF income_in_bracket > 0
                         THEN remaining - income_in_bracket
                         ELSE remaining
       IN IF remaining2 <= 0 THEN tax2
          ELSE NlLoop(i + 1, tax2, NlAdvanceCap(last_cap, b), remaining2)

\* returns taxable_income - tax, an amount with a fraction over RateDen
apply_nl_taxes_2025(taxable_income) ==
  Returned(SubFrom(taxable_income,
                   NlLoop(1, [q |-> 0, r |-> 0], 0, taxable_income), RateDen))

CallApplyNlTaxes ==
  \E i \in 1..2 :
    Call("apply_nl_taxes_2025", taxArgs[i], apply_nl_taxes_2025(taxArgs[i]))

NextNl ==
  \/ CallCalcTax
  \/ CallApplyNlTaxes

SpecNl == InitTax /\ [][NextNl]_vars

\* C29: for every taxable income x >= 0, x - apply_nl_taxes_2025(x) is the
\* tax calc_tax(x) computes before it rounds to 2 decimals.
C29_CalculatorsEquivalent ==
  \A i, j \in CallIdx :
    (taxCalls[i].fn = "apply_nl_taxes_2025" /\ taxCalls[j].fn = "calc_tax"
       /\ taxCalls[i].arg = taxCalls[j].arg /\ taxCalls[i].arg >= 0) =>
      /\ SubFrom(taxCalls[i].arg, taxCalls[i].out.value, RateDen)
           = TaxLoop(taxCalls[j].arg, 1, [q |-> 0, r |-> 0], 0)
      /\ round2(SubFrom(taxCalls[i].arg, taxCalls[i].out.value, RateDen), RateDen)
           = taxCalls[j].out.value

C29_Witness ==
  /\ Len(taxCalls) = 2
  /\ taxCalls[1].fn = "apply_nl_taxes_2025"
  /\ taxCalls[2].fn = "calc_tax"
  /\ taxCalls[1].arg = Euro(100000)
  /\ taxCalls[2].arg = Euro(100000)
  /\ taxCalls[2].out.value > Euro(28152)

----------------------------------------------------------------------------
(* The submit handler of Salary_Calculator.py and the stored payload *)

MaxSubmissions == 2

Jobs == {"Data Engineer", "Nurse"}
Degrees == {"Yes", "No"}
\* what get_estimates returns or raises: a salary (avg * 12, in euros) and
\* the monthly essential costs as the tables hold them, ValueError for a
\* missing row, a database error otherwise
LookupResults ==
  [raised : {"none"}, salary : {-12, 0, 36000, 74520}, costs : {Euro(0), Euro(4000)}]
    \cup [raised : {"ValueError", "OperationalError"}, salary : {0}, costs : {0}]

check_degree_requirement(a, has_degree) == a < 30 /\ has_degree = "Yes"

PayloadKeys == {"inputs", "extra", "outputs", "tax dict", "net", "pocket",
                "netto_disposable", "net_tax"}

\* the payload as first built, before the aggregation
PayloadFirstStage ==
  [inputs |-> job,
   extra |-> [age |-> age, master_diploma |-> master_dpl],
   outputs |-> [salary |-> salary_in, essential_costs |-> essential_costs]]
    @@ ("tax dict" :> my_dict)

Payload ==
  [inputs |-> job,
   extra |-> [age |-> age, master_diploma |-> master_dpl],
   outputs |-> [salary |-> salary_in, essential_costs |-> essential_costs],
   net |-> netnet,
   pocket |-> pocket,
   netto_disposable |-> netto_disposablee,
   net_tax |-> net_taxx]
    @@ ("tax dict" :> my_dict)

InitSubmit == RulingIdle /\ TaxIdle /\ AggIdle /\ SessionIdle

\* if submitted: res = get_estimates(...); out = res["outputs"]; extra = {...};
\* then expat_ruling_calc(age, avg * 12, "2026-01-01", 6, master_diploma) starts
BeginSubmit ==
  /\ pc = "idle"
  /\ submissions < MaxSubmissions
  /\ submissions' = submissions + 1
  /\ \E j \in Jobs, a \in {29, 30}, has_masters_nl \in Degrees,
        res \in LookupResults :
       IF res.raised # "none"
       THEN /\ Raise(res.raised)
            /\ UNCHANGED <<variant, age, salary_in, date_string, duration,
                           master_dpl, base_salary, eligible, Ruling_test,
                           current_year, months_remaining_init,
                           months_remaining_final, my_dict, year1, year5, idx,
                           aggVars, job>>
       ELSE /\ job' = j
            /\ variant' = "calculator"
            /\ age' = a
            /\ salary_in' = res.salary
            /\ date_string' = <<2026, 1, 1>>
            /\ duration' = 6
            /\ master_dpl' = check_degree_requirement(a, has_masters_nl)
            /\ base_salary' = Euro(res.salary)
            /\ eligible' = FALSE
            /\ Ruling_test' = FALSE
            /\ current_year' = 0
            /\ months_remaining_init' = 0
            /\ months_remaining_final' = 0
            /\ my_dict' = NoDict
            /\ year1' = 0
            /\ year5' = 0
            /\ idx' = 0
            /\ pc' = "eligibility"
            /\ raised' = "none"
            /\ essential_costs' = res.costs
            /\ netnet' = 0
            /\ pocket' = 0
            /\ net_taxx' = NoDict
            /\ netto_disposablee' = NoDict
            /\ return_net_incomee' = 0
  /\ UNCHANGED <<taxArgs, taxCalls, last_payload>>

\* payload = {...}; st.session_state["last_payload"] = payload
StorePayload ==
  /\ pc = "return_net_income"
  /\ last_payload' = Payload
  /\ pc' = "idle"
  /\ UNCHANGED <<variant, age, salary_in, date_string, duration, master_dpl,
                 base_salary, eligible, Ruling_test, current_year,
                 months_remaining_init, months_remaining_final, my_dict,
                 year1, year5, idx, raised, taxArgs, taxCalls, aggVars,
                 job, submissions>>

\* except ValueError as ve: st.warning(...); except Exception as e: st.error(...)
HandleError ==
  /\ pc = "raised"
  /\ pc' = "idle"
  /\ UNCHANGED <<variant, age, salary_in, date_string, duration, master_dpl,
                 base_salary, eligible, Ruling_test, current_year,
                 months_remaining_init, months_remaining_final, my_dict,
                 year1, year5, idx, raised, taxArgs, taxCalls, aggVars,
                 sessionVars>>

\* the steps of the copy of expat_ruling_calc in Salary_Calculator.py
NextSubmit ==
  \/ BeginSubmit
  \/ Eligibility
  \/ ParseDate
  \/ BuildDict
  \/ RulingTestStep
  \/ CapSalary
  \/ Year1
  \/ Year5
  \/ AssignEnds
  \/ OtherYear
  \/ OtherYearsElse
  \/ Remainder
  \/ FillAll
  \/ NetIncomeCall
  \/ NetTaxCall
  \/ NettoDisposableCall
  \/ StorePayload
  \/ HandleError

SpecSubmit == InitSubmit /\ [][NextSubmit]_vars

====
